---- MODULE Spec2Model ----
(***************************************************************************)
(* A model of app/openai_ops.py: generate_assistant_response (thread and   *)
(* message creation, the deadline-bounded poll loop over a run, message    *)
(* extraction) and process_citations (cataloguing, substitution, footnote  *)
(* assembly).                                                              *)
(*                                                                         *)
(* A text is a sequence of string tokens. Texts that str.replace works on  *)
(* (message values, annotation spans, markers) are sequences of one-       *)
(* character tokens; the fixed messages of the code are single tokens.     *)
(* Time is counted in whole poll intervals (seconds).                      *)
(***************************************************************************)
EXTENDS Integers, Sequences, FiniteSets, TLC

\* ------------------------------------------------------------------ bounds
MaxTimeout == 2      \* timeout_seconds ranges over 0..MaxTimeout
MaxLatency == 1      \* a remote run call takes 0..MaxLatency seconds
MaxAnn == 3          \* annotations per text block (citation specification)
MaxLen == 2          \* characters per message value (citation specification)

\* ------------------------------------------------------- the remote service
None == "None"
ThreadIds == {"thread_1", "thread_2"}
RunIds == {"run_1"}
AssistantIds == {None, "asst_1"}
NonTerminal == {"queued", "in_progress"}
Statuses == {"queued", "in_progress", "completed", "failed", "cancelled",
             "expired", "requires_action"}
LastErrors == {"rate_limit_exceeded", "server_error"}
\* what a remote call may raise: the client's timeout error, or any other
RemoteErrors == {"APITimeoutError", "APIError"}
FileIds == {"file_1", "file_2"}
Filenames == {"p", "q"}

\* the run objects createRun / retrieveRun can answer with
RunAnswers ==
    { [status |-> s, last_error |-> None] : s \in Statuses \ {"failed"} }
    \cup { [status |-> "failed", last_error |-> e] : e \in LastErrors }

\* ------------------------------------------------------------------- texts
Digits == <<"0", "1", "2", "3", "4", "5", "6", "7", "8", "9">>

RECURSIVE Str(_)
\* str(n) of a natural number, one token per digit
Str(n) == IF n < 10 THEN <<Digits[n + 1]>>
          ELSE Str(n \div 10) \o <<Digits[(n % 10) + 1]>>

\* s[i..] starts with the sequence p
StartsAt(s, i, p) ==
    /\ i + Len(p) - 1 <= Len(s)
    /\ \A k \in 1..Len(p) : s[i + k - 1] = p[k]

RECURSIVE ReplaceFrom(_, _, _, _)
ReplaceFrom(s, i, old, new) ==
    IF i > Len(s) THEN <<>>
    ELSE IF StartsAt(s, i, old)
         THEN new \o ReplaceFrom(s, i + Len(old), old, new)
         ELSE <<s[i]>> \o ReplaceFrom(s, i + 1, old, new)

\* str.replace(old, new) for a non-empty old: every non-overlapping
\* occurrence, leftmost first
Replace(s, old, new) == ReplaceFrom(s, 1, old, new)

\* s contains the token t
Contains(s, t) == \E k \in 1..Len(s) : s[k] = t

RECURSIVE Join(_, _)
\* sep.join(lines)
Join(lines, sep) ==
    IF Len(lines) = 0 THEN <<>>
    ELSE IF Len(lines) = 1 THEN lines[1]
    ELSE lines[1] \o sep \o Join(Tail(lines), sep)

\* ------------------------------------------------- dicts (insertion-ordered)
\* a dict is a sequence of <<key, value>> pairs in insertion order
DictHas(d, k) == \E j \in 1..Len(d) : d[j][1] = k
DictGet(d, k) == d[CHOOSE j \in 1..Len(d) : d[j][1] = k][2]
DictSet(d, k, v) ==
    IF DictHas(d, k)
    THEN [j \in 1..Len(d) |-> IF d[j][1] = k THEN <<k, v>> ELSE d[j]]
    ELSE Append(d, <<k, v>>)

\* ---------------------------------------------------- the code's messages
NoAssistantText == <<"Error: No assistant ID provided">>
\* mutant: the text does not name the status
RunFailedTextGeneric(status) == <<"Error: The operation failed">>
RunFailedText(status) == <<"Error: The operation failed with status: ", status>>
NoResponseText == <<"No response received from the assistant">>
NoTextContentText == <<"No text content found in the assistant's response">>

VARIABLES
    pc,               \* the invocation's position
    assistant_id,     \* context["OPENAI_ASSISTANT_ID"], or None
    timeout_seconds,  \* the caller's deadline
    now,              \* time.time()
    start_time,       \* t0
    thread_id,        \* thread.id
    run,              \* the run object last answered
    messages,         \* messages.data, once listed
    text_content,     \* the text block handed to process_citations
    message_value,    \* process_citations' working text
    file_citations,   \* dict file id -> filename
    citation_indices, \* dict file id -> index
    citations,        \* the footnote lines
    ann_i,            \* position of the first-pass loop
    trace,            \* remote calls and deadline checks so far, in order
    logged,           \* what the logger was given
    result,           \* the returned text
    raised,           \* the raised exception, or None
    api_key,          \* context["OPENAI_API_KEY"], or None
    slack_thread,     \* what Slack holds about the message's thread parent
    handlers          \* the requests received, each with its handling so far

vars == <<pc, assistant_id, timeout_seconds, now, start_time, thread_id, run,
          messages, text_content, message_value, file_citations,
          citation_indices, citations, ann_i, trace, logged, result, raised,
          api_key, slack_thread, handlers>>

slackVars == <<api_key, slack_thread, handlers>>

citeVars == <<text_content, message_value, file_citations, citation_indices,
              citations, ann_i>>

NoRun == [id |-> None, status |-> None, last_error |-> None]
\* no text block (yet): unlike every text block, it is marked unset
NoText == [value |-> <<>>, has_annotations |-> FALSE, annotations |-> <<>>,
           unset |-> TRUE]

\* a message outside any thread
NoThread == [parent |-> "absent", in_replies |-> FALSE]

\* one entry of trace
Event(op, arg, res) == [op |-> op, arg |-> arg, res |-> res, at |-> now - start_time]

\* ------------------------------------------------------------------ inputs
\* "y" alone is plain text: the spans are "x" and "xy"
Chars == {"x", "y"}
Spans == {<<"x">>, <<"x", "y">>}

RECURSIVE SeqsUpTo(_, _)
\* the sequences over S of length at most n
SeqsUpTo(S, n) ==
    IF n = 0 THEN {<<>>}
    ELSE LET shorter == SeqsUpTo(S, n - 1)
         IN  shorter \cup { Append(q, e) : q \in {r \in shorter : Len(r) = n - 1}, e \in S }

\* an annotation carries file_citation, file_path, or neither attribute
Annotations ==
    { [kind |-> k, file_id |-> f, text |-> t] :
        k \in {"file_citation", "file_path"}, f \in FileIds, t \in Spans }
    \cup { [kind |-> "other", file_id |-> None, text |-> <<"x">>] }

\* the text blocks process_citations is checked on
CiteInputs ==
    { [value |-> v, has_annotations |-> TRUE, annotations |-> a] :
        v \in SeqsUpTo(Chars, MaxLen), a \in SeqsUpTo(Annotations, MaxAnn) }
    \cup { [value |-> v, has_annotations |-> FALSE, annotations |-> <<>>] :
        v \in SeqsUpTo(Chars, MaxLen) }

Ann(k, f, t) == [kind |-> k, file_id |-> f, text |-> t]
TextBlock(v, a) == [value |-> v, has_annotations |-> TRUE, annotations |-> a]

\* the text blocks the remote answers with in the whole-invocation specification
RunTexts ==
    { [value |-> <<"a">>, has_annotations |-> FALSE, annotations |-> <<>>],
      TextBlock(<<"a">>, <<>>),
      TextBlock(<<"x", "a", "x">>,
                <<Ann("file_citation", "file_2", <<"x">>),
                  Ann("other", None, <<"x">>),
                  Ann("file_path", "file_2", <<"x">>)>>),
      TextBlock(<<"a", "x">>, <<Ann("file_citation", "file_1", <<"x">>)>>),
      TextBlock(<<"x", "a", "y">>,
                <<Ann("file_citation", "file_1", <<"x">>),
                  Ann("file_path", "file_2", <<"y">>)>>) }

ImageItem == [type |-> "image_file", text |-> NoText]
TextItem(t) == [type |-> "text", text |-> t]

\* the content of the newest message: any mix of up to two blocks
Contents ==
    {<<>>, <<ImageItem>>}
    \cup { <<TextItem(t)>> : t \in RunTexts }
    \cup { <<ImageItem, TextItem(t)>> : t \in RunTexts }
    \cup { <<TextItem(t), TextItem(TextBlock(<<"y">>, <<>>))>> : t \in RunTexts }

\* messages.data for limit=1: no message, or the newest one
MessageLists == {<<>>} \cup { <<[content |-> c]>> : c \in Contents }

\* -------------------------------------------------------------------- Init
Init ==
    /\ pc = "create_thread"
    /\ assistant_id \in AssistantIds
    /\ timeout_seconds \in 0..MaxTimeout
    /\ now = 0
    /\ start_time = 0
    /\ thread_id = None
    /\ run = NoRun
    /\ messages = <<>>
    /\ text_content = NoText
    /\ message_value = <<>>
    /\ file_citations = <<>>
    /\ citation_indices = <<>>
    /\ citations = <<>>
    /\ ann_i = 0
    /\ trace = <<>>
    /\ logged = <<>>
    /\ result = <<>>
    /\ raised = None
    /\ api_key = "key"
    /\ slack_thread = NoThread
    /\ handlers = <<>>

\* ------------------------------------------------ how an invocation ends
Return(text) ==
    /\ pc' = "done"
    /\ result' = text
    /\ raised' = None

Raise(exc) ==
    /\ pc' = "done"
    /\ raised' = exc
    /\ result' = <<>>

Returned == pc = "done" /\ raised = None
Raises(exc) == pc = "done" /\ raised = exc

LogError(msg) == Append(logged, [level |-> "error", msg |-> msg])

\* ------------------------------------------------ generate_assistant_response
\* client.beta.threads.create()
CreateThread ==
    /\ pc = "create_thread"
    /\ \/ \E t \in ThreadIds :
            /\ thread_id' = t
            /\ trace' = Append(trace, Event("createThread", None, t))
            /\ pc' = "create_message"
            /\ UNCHANGED <<result, raised>>
       \/ \E e \in RemoteErrors :
            /\ trace' = Append(trace, Event("createThread", None, e))
            /\ Raise(e)
            /\ UNCHANGED thread_id
    /\ UNCHANGED <<assistant_id, timeout_seconds, now, start_time, run, logged>>
    /\ UNCHANGED citeVars
    /\ UNCHANGED messages
    /\ UNCHANGED slackVars

\* client.beta.threads.messages.create(thread_id, role="user", content=prompt)
CreateMessage ==
    /\ pc = "create_message"
    /\ \/ /\ trace' = Append(trace, Event("createMessage", thread_id, "ok"))
          /\ pc' = "start_run"
          /\ UNCHANGED <<result, raised>>
       \/ \E e \in RemoteErrors :
            /\ trace' = Append(trace, Event("createMessage", thread_id, e))
            /\ Raise(e)
    /\ UNCHANGED <<assistant_id, timeout_seconds, now, start_time, thread_id,
                   run, logged>>
    /\ UNCHANGED citeVars
    /\ UNCHANGED messages
    /\ UNCHANGED slackVars

\* mutant: the assistant id is never found missing
AssistantNeverMissing(id) == FALSE

\* assistant_id is None
AssistantMissing(id) == id = None

\* no assistant id: log and return the error text
NoAssistantId ==
    /\ pc = "start_run"
    /\ AssistantMissing(assistant_id)
    /\ logged' = LogError(<<"No assistant ID provided in context">>)
    /\ Return(NoAssistantText)
    /\ UNCHANGED <<assistant_id, timeout_seconds, now, start_time, thread_id,
                   run, trace>>
    /\ UNCHANGED citeVars
    /\ UNCHANGED messages
    /\ UNCHANGED slackVars

\* start_time = time.time(); run = client.beta.threads.runs.create(...)
CreateRun ==
    /\ pc = "start_run"
    /\ ~AssistantMissing(assistant_id)
    /\ start_time' = now
    /\ \E d \in 0..MaxLatency :
        /\ now' = now + d
        /\ \/ \E r \in RunIds, a \in RunAnswers :
                /\ run' = [id |-> r, status |-> a.status, last_error |-> a.last_error]
                /\ trace' = Append(trace, [op |-> "createRun",
                                           arg |-> <<thread_id, assistant_id>>,
                                           res |-> a.status, at |-> 0, id |-> r])
                /\ pc' = "loop"
                /\ UNCHANGED <<result, raised>>
           \/ \E e \in RemoteErrors :
                /\ trace' = Append(trace, [op |-> "createRun",
                                           arg |-> <<thread_id, assistant_id>>,
                                           res |-> e, at |-> 0])
                /\ Raise(e)
                /\ UNCHANGED run
    /\ UNCHANGED <<assistant_id, timeout_seconds, thread_id, logged>>
    /\ UNCHANGED citeVars
    /\ UNCHANGED messages
    /\ UNCHANGED slackVars

\* mutant: the loop forgets the queued status
InLoopOnlyInProgress(r) == r.status = "in_progress"

\* mutant: only failed counts as not completed
CompletedUnlessFailed(r) == r.status # "failed"

\* run.status in ["queued", "in_progress"]
InLoop(r) == r.status \in NonTerminal

\* run.status == "completed"
Completed(r) == r.status = "completed"

\* mutant: the deadline check with <= in place of <
DeadlinePassedInclusive(timeout, spent) == timeout <= spent

\* mutant: the deadline check allows one more second
DeadlinePassedLate(timeout, spent) == timeout + 1 < spent

\* mutant: the deadline check never fails
DeadlinePassedNever(timeout, spent) == FALSE

\* timeout_seconds < spent_seconds
DeadlinePassed(timeout, spent) == timeout < spent

\* the loop's deadline check fails: raise TimeoutError()
RaiseTimeout ==
    /\ pc = "loop"
    /\ InLoop(run)
    /\ DeadlinePassed(timeout_seconds, now - start_time)
    /\ trace' = Append(trace, Event("check", None, "TimeoutError"))
    /\ Raise("TimeoutError")
    /\ UNCHANGED <<assistant_id, timeout_seconds, now, start_time, thread_id,
                   run, logged>>
    /\ UNCHANGED citeVars
    /\ UNCHANGED messages
    /\ UNCHANGED slackVars

\* mutant: the two ids are passed in each other's place
RetrieveArgsSwapped(t, r) == <<r, t>>

\* runs.retrieve(thread_id=thread.id, run_id=run.id)
RetrieveArgs(t, r) == <<t, r>>

\* the check passes: time.sleep(1); run = client.beta.threads.runs.retrieve(...)
PollRun ==
    /\ pc = "loop"
    /\ InLoop(run)
    /\ ~DeadlinePassed(timeout_seconds, now - start_time)
    /\ LET checked == Append(trace, Event("check", None, "ok"))
           asked == [op |-> "retrieveRun", arg |-> RetrieveArgs(thread_id, run.id),
                     at |-> now + 1 - start_time]
       IN  \E d \in 0..MaxLatency :
            /\ now' = now + 1 + d
            /\ \/ \E a \in RunAnswers :
                    /\ run' = [id |-> run.id, status |-> a.status,
                               last_error |-> a.last_error]
                    /\ trace' = Append(checked, [op |-> asked.op, arg |-> asked.arg,
                                                 res |-> a.status, at |-> asked.at])
                    /\ UNCHANGED <<pc, result, raised>>
               \/ \E e \in RemoteErrors :
                    /\ trace' = Append(checked, [op |-> asked.op, arg |-> asked.arg,
                                                 res |-> e, at |-> asked.at])
                    /\ Raise(e)
                    /\ UNCHANGED run
    /\ UNCHANGED <<assistant_id, timeout_seconds, start_time, thread_id, logged>>
    /\ UNCHANGED citeVars
    /\ UNCHANGED messages
    /\ UNCHANGED slackVars

\* mutant: the failure reason is not logged
RunFailedLogStatusOnly(r) ==
    <<[level |-> "error", msg |-> <<"Run failed with status ", r.status>>]>>

\* what logger.error is given for a run that ended without completing
RunFailedLog(r) ==
    <<[level |-> "error", msg |-> <<"Run failed with status ", r.status>>]>>
    \o (IF r.status = "failed"
        THEN <<[level |-> "error", msg |-> <<"Failure reason: ", r.last_error>>]>>
        ELSE <<>>)

\* the loop is left with a status other than completed
RunNotCompleted ==
    /\ pc = "loop"
    /\ ~InLoop(run)
    /\ ~Completed(run)
    /\ logged' = logged \o RunFailedLog(run)
    /\ Return(RunFailedText(run.status))
    /\ UNCHANGED <<assistant_id, timeout_seconds, now, start_time, thread_id,
                   run, trace>>
    /\ UNCHANGED citeVars
    /\ UNCHANGED messages
    /\ UNCHANGED slackVars

\* mutant: the last text-typed block is picked
LastTextIndex(content) ==
    IF \E j \in 1..Len(content) : content[j].type = "text"
    THEN CHOOSE j \in 1..Len(content) :
            /\ content[j].type = "text"
            /\ \A k \in (j + 1)..Len(content) : content[k].type # "text"
    ELSE 0

\* the first text-typed block of a message's content, or 0
FirstTextIndex(content) ==
    IF \E j \in 1..Len(content) : content[j].type = "text"
    THEN CHOOSE j \in 1..Len(content) :
            /\ content[j].type = "text"
            /\ \A k \in 1..(j - 1) : content[k].type # "text"
    ELSE 0

\* the run completed: messages.list(order="desc", limit=1), then pick the text
ListMessages ==
    /\ pc = "loop"
    /\ ~InLoop(run)
    /\ Completed(run)
    /\ \/ \E data \in MessageLists :
            /\ messages' = data
            /\ trace' = Append(trace, Event("listMessages", thread_id, "ok"))
            /\ logged' = Append(logged,
                    [level |-> "debug",
                     msg |-> <<"Response generation took ">> \o Str(now - start_time)
                             \o <<" seconds">>])
            /\ IF Len(data) = 0
               THEN Return(NoResponseText) /\ UNCHANGED text_content
               ELSE LET content == data[1].content
                        j == FirstTextIndex(content)
                    IN  IF j = 0
                        THEN Return(NoTextContentText) /\ UNCHANGED text_content
                        ELSE /\ text_content' = content[j].text
                             /\ pc' = "cite"
                             /\ UNCHANGED <<result, raised>>
       \/ \E e \in RemoteErrors :
            /\ trace' = Append(trace, Event("listMessages", thread_id, e))
            /\ Raise(e)
            /\ UNCHANGED <<logged, text_content, messages>>
    /\ UNCHANGED <<assistant_id, timeout_seconds, now, start_time, thread_id, run>>
    /\ UNCHANGED <<message_value, file_citations, citation_indices, citations, ann_i>>
    /\ UNCHANGED slackVars

\* ------------------------------------------------------- process_citations
runVars == <<assistant_id, timeout_seconds, now, start_time, thread_id, run,
             messages>>

\* mutant: the footnote separator is appended before any citation is known
MessageValueWithSeparator(tc) == tc.value \o <<"\n", "\n">>

\* message_value = text_content.value
MessageValue(tc) == tc.value

\* text_content.annotations if hasattr(text_content, "annotations") else []
AnnotationsOf(tc) == IF tc.has_annotations THEN tc.annotations ELSE <<>>

\* not annotations
NoAnnotations(anns) == Len(anns) = 0

\* hasattr(annotation, 'file_citation') or hasattr(annotation, 'file_path')
HasFile(a) == a.kind \in {"file_citation", "file_path"}

\* mutant: every annotation with a file is looked up
NeedsLookupAlways(fc, file_id) == TRUE

\* file_id not in file_citations
NeedsLookup(fc, file_id) == ~DictHas(fc, file_id)

\* mutant: indices counted from 0
NextIndexZeroBased(ci) == Len(ci)

\* len(citation_indices) + 1
NextIndex(ci) == Len(ci) + 1

\* f' [{idx}]'
Marker(idx) == <<" ", "[">> \o Str(idx) \o <<"]">>

RECURSIVE SecondPass(_, _, _, _)
\* the second pass from annotation i on: replace each annotation's text by
\* the marker of its file's index
SecondPass(value, anns, i, ci) ==
    IF i > Len(anns) THEN value
    ELSE IF HasFile(anns[i])
         THEN SecondPass(Replace(value, anns[i].text,
                                 Marker(DictGet(ci, anns[i].file_id))),
                         anns, i + 1, ci)
         ELSE SecondPass(value, anns, i + 1, ci)

\* mutant: the footnote loop stops one entry early
FootnoteLinesDropLast(fc, ci) ==
    [j \in 1..(Len(fc) - 1) |->
        <<"[">> \o Str(DictGet(ci, fc[j][1])) \o <<"]", " Citation from ", fc[j][2]>>]

\* one line per entry of file_citations, in the dict's order
FootnoteLines(fc, ci) ==
    [j \in 1..Len(fc) |->
        <<"[">> \o Str(DictGet(ci, fc[j][1])) \o <<"]", " Citation from ", fc[j][2]>>]

\* message_value += '\n\n' + '\n'.join(citations), if there are any
WithFootnotes(value, lines) ==
    IF Len(lines) > 0
    THEN value \o <<"\n", "\n">> \o Join(lines, <<"\n">>)
    ELSE value

\* mutant: the handler logs and re-raises
OnCitationErrorPropagates(e) ==
    /\ logged' = LogError(<<"Error processing citations: ", e>>)
    /\ Raise(e)

\* except Exception as e: log, return text_content.value
OnCitationError(e) ==
    /\ logged' = LogError(<<"Error processing citations: ", e>>)
    /\ Return(text_content.value)

\* entry: no annotations means nothing to do
CiteNoAnnotations ==
    /\ pc = "cite"
    /\ NoAnnotations(AnnotationsOf(text_content))
    /\ message_value' = MessageValue(text_content)
    /\ Return(MessageValue(text_content))
    /\ UNCHANGED <<trace, logged, text_content, file_citations,
                   citation_indices, citations, ann_i>>
    /\ UNCHANGED runVars
    /\ UNCHANGED slackVars

\* entry with annotations: start the first pass
CiteBegin ==
    /\ pc = "cite"
    /\ ~NoAnnotations(AnnotationsOf(text_content))
    /\ message_value' = MessageValue(text_content)
    /\ file_citations' = <<>>
    /\ citation_indices' = <<>>
    /\ ann_i' = 1
    /\ pc' = "pass1"
    /\ UNCHANGED <<trace, logged, text_content, citations, result, raised>>
    /\ UNCHANGED runVars
    /\ UNCHANGED slackVars

\* first pass, an annotation with a file not yet catalogued: files.retrieve
CatalogLookup ==
    /\ pc = "pass1"
    /\ ann_i <= Len(AnnotationsOf(text_content))
    /\ LET a == AnnotationsOf(text_content)[ann_i]
       IN  /\ HasFile(a)
           /\ NeedsLookup(file_citations, a.file_id)
           /\ \/ \E name \in Filenames :
                    /\ trace' = Append(trace, Event("retrieveFile", a.file_id, name))
                    /\ file_citations' = DictSet(file_citations, a.file_id, name)
                    /\ citation_indices' = DictSet(citation_indices, a.file_id,
                                                   NextIndex(citation_indices))
                    /\ ann_i' = ann_i + 1
                    /\ UNCHANGED <<pc, logged, result, raised>>
              \/ \E e \in RemoteErrors :
                    /\ trace' = Append(trace, Event("retrieveFile", a.file_id, e))
                    /\ OnCitationError(e)
                    /\ UNCHANGED <<file_citations, citation_indices, ann_i>>
    /\ UNCHANGED <<text_content, message_value, citations>>
    /\ UNCHANGED runVars
    /\ UNCHANGED slackVars

\* first pass, an annotation with no file or with a file already catalogued
CatalogSkip ==
    /\ pc = "pass1"
    /\ ann_i <= Len(AnnotationsOf(text_content))
    /\ LET a == AnnotationsOf(text_content)[ann_i]
       IN  ~(HasFile(a) /\ NeedsLookup(file_citations, a.file_id))
    /\ ann_i' = ann_i + 1
    /\ UNCHANGED <<pc, trace, logged, text_content, message_value, file_citations,
                   citation_indices, citations, result, raised>>
    /\ UNCHANGED runVars
    /\ UNCHANGED slackVars

\* second pass, footnote assembly, return
Substitute ==
    /\ pc = "pass1"
    /\ ann_i > Len(AnnotationsOf(text_content))
    /\ LET replaced == SecondPass(message_value, AnnotationsOf(text_content), 1,
                                  citation_indices)
           lines == FootnoteLines(file_citations, citation_indices)
       IN  /\ citations' = lines
           /\ message_value' = WithFootnotes(replaced, lines)
           /\ Return(WithFootnotes(replaced, lines))
    /\ UNCHANGED <<trace, logged, text_content, file_citations, citation_indices,
                   ann_i>>
    /\ UNCHANGED runVars
    /\ UNCHANGED slackVars

\* ---------------------------------------------------------- specifications
Next ==
    \/ CreateThread
    \/ CreateMessage
    \/ NoAssistantId
    \/ CreateRun
    \/ RaiseTimeout
    \/ PollRun
    \/ RunNotCompleted
    \/ ListMessages
    \/ CiteNoAnnotations
    \/ CiteBegin
    \/ CatalogLookup
    \/ CatalogSkip
    \/ Substitute

\* one invocation of generate_assistant_response
Spec == Init /\ [][Next]_vars

\* process_citations alone, on every bounded text block
InitCite ==
    /\ pc = "cite"
    /\ text_content \in CiteInputs
    /\ assistant_id = "asst_1"
    /\ timeout_seconds = 0
    /\ now = 0
    /\ start_time = 0
    /\ thread_id = None
    /\ run = NoRun
    /\ messages = <<>>
    /\ message_value = <<>>
    /\ file_citations = <<>>
    /\ citation_indices = <<>>
    /\ citations = <<>>
    /\ ann_i = 0
    /\ trace = <<>>
    /\ logged = <<>>
    /\ result = <<>>
    /\ raised = None
    /\ api_key = "key"
    /\ slack_thread = NoThread
    /\ handlers = <<>>

NextCite ==
    \/ CiteNoAnnotations
    \/ CiteBegin
    \/ CatalogLookup
    \/ CatalogSkip
    \/ Substitute

SpecCite == InitCite /\ [][NextCite]_vars

\* ------------------------------------------------ the Slack side: requests
\* requests received at most (the app's own edits come back as requests)
MaxRequests == 4

\* what a call of the Slack client fails with
SlackErrors == {"SlackApiError"}
MESSAGE_SUBTYPES_TO_SKIP == {"message_changed", "message_deleted"}
Subtypes == {None, "file_share"} \cup MESSAGE_SUBTYPES_TO_SKIP
TIMEOUT_ERROR_MESSAGE == ":warning: Apologies! It seems that OpenAI didn't respond"
DEFAULT_LOADING_TEXT == ":hourglass_flowing_sand: Wait a second, please..."
ConfigureKeyText == "To use this app, please configure your OpenAI API key first"
MentionFailurePrefix == ":warning: Failed to start a conversation with ChatGPT: "
MessageFailurePrefix == ":warning: Failed to reply: "

\* every variable of generate_assistant_response and process_citations
genVars == <<pc, assistant_id, timeout_seconds, now, start_time, thread_id, run,
             messages, text_content, message_value, file_citations,
             citation_indices, citations, ann_i, trace, logged, result, raised>>

\* the fields of an event payload the listeners read
Payloads == [thread_ts : {None, "ts_0"},
             channel_type : {"channel", "im"},
             bot_id : {None, "own_bot", "other_bot"}]

\* what Slack can hold about the parent of the thread a message is in: none
\* found, or one that mentions the app or does not, listed among the replies
\* or not; only a message in a channel thread has its parent looked at
Threads(p) ==
    IF p.thread_ts = None \/ p.channel_type = "im" THEN {NoThread}
    ELSE {NoThread} \cup [parent : {"mentions", "plain"}, in_replies : BOOLEAN]

AppMention(p) ==
    [is_event |-> TRUE, type |-> "app_mention", subtype |-> None, payload |-> p]
MessageEvent(p, s) ==
    [is_event |-> TRUE, type |-> "message", subtype |-> s, payload |-> p]
ReactionEvent(p) ==
    [is_event |-> TRUE, type |-> "reaction_added", subtype |-> None, payload |-> p]
BlockAction(p) ==
    [is_event |-> FALSE, type |-> "block_actions", subtype |-> None, payload |-> p]

\* the message_changed event Slack sends after an edit of a message: its
\* payload carries the edited message nested, so no thread_ts or bot_id of its own
EditEvent(p) ==
    MessageEvent([thread_ts |-> None, channel_type |-> p.channel_type,
                  bot_id |-> None], "message_changed")

\* the requests one user message arrives as: a message event, and in a channel
\* an app_mention event too when the text mentions the app
Deliveries(p) ==
    { <<MessageEvent(p, s)>> : s \in Subtypes }
    \cup (IF p.channel_type = "channel"
          THEN {<<AppMention(p), MessageEvent(p, None)>>} ELSE {})
    \cup {<<ReactionEvent(p)>>, <<BlockAction(p)>>}

NoWip == [posted |-> FALSE, ts |-> 0, text |-> ""]
NoOutcome == [ended |-> FALSE, raised |-> None, text |-> <<>>]

\* a request as received, nothing done with it yet
NewHandler(req) ==
    [req |-> req, lpc |-> "new", next_calls |-> 0, response |-> None,
     wip_reply |-> NoWip, outcome |-> NoOutcome, exc |-> None, calls |-> <<>>]

RECURSIVE NewHandlers(_)
NewHandlers(reqs) ==
    IF reqs = <<>> THEN <<>>
    ELSE <<NewHandler(Head(reqs))>> \o NewHandlers(Tail(reqs))

\* one call of the Slack client by a listener
SlackCall(op, arg, text, res) == [op |-> op, arg |-> arg, text |-> text, res |-> res]

\* ------------------------------------------------ before_authorize
\* mutant: message_deleted is let through
SkipsRequestChangedOnly(req) ==
    /\ req.is_event
    /\ req.type = "message"
    /\ req.subtype = "message_changed"

\* is_event(body) and type == "message" and subtype in MESSAGE_SUBTYPES_TO_SKIP
SkipsRequest(req) ==
    /\ req.is_event
    /\ req.type = "message"
    /\ req.subtype \in MESSAGE_SUBTYPES_TO_SKIP

\* app.event("app_mention") and app.event("message"): the listener next_() leads to
ListenerEntry(req) ==
    IF req.is_event /\ req.type = "app_mention" THEN "mention"
    ELSE IF req.is_event /\ req.type = "message" THEN "message"
    ELSE "unhandled"

\* the middleware on one request: answer 200 itself, or call next_()
BeforeAuthorize(h) ==
    /\ handlers[h].lpc = "new"
    /\ handlers' = [handlers EXCEPT ![h] =
          IF SkipsRequest(handlers[h].req)
          THEN [handlers[h] EXCEPT !.response = "200", !.lpc = "answered"]
          ELSE [handlers[h] EXCEPT !.next_calls = @ + 1,
                                   !.lpc = ListenerEntry(handlers[h].req)]]
    /\ UNCHANGED <<api_key, slack_thread>>
    /\ UNCHANGED genVars

\* ------------------------------------------------ routing in the listeners
\* find_parent_message's answer: the parent, or None
FindParent == IF slack_thread.parent = "absent" THEN None ELSE slack_thread.parent

\* mutant: the parent of the thread is not looked at
MentionSkipsNever(thread_ts, parent_message) == FALSE

\* lines 29-35: the thread's parent already mentions the app
MentionSkips(thread_ts, parent_message) ==
    /\ thread_ts # None
    /\ parent_message # None
    /\ parent_message = "mentions"

\* lines 128-153: is_thread_for_this_app, the replies listed
IsThreadForThisApp(p) ==
    IF p.channel_type = "im" THEN TRUE
    ELSE IF slack_thread.in_replies THEN slack_thread.parent = "mentions"
    ELSE FindParent # None /\ FindParent = "mentions"

\* the listener of handler h ends
Ends(h, lpc, calls) ==
    handlers' = [handlers EXCEPT ![h] =
        [handlers[h] EXCEPT !.lpc = lpc, !.calls = @ \o calls]]

\* respond_to_app_mention up to the try block
MentionRoute(h) ==
    /\ handlers[h].lpc = "mention"
    /\ LET thread_ts == handlers[h].req.payload.thread_ts IN
       \/ /\ thread_ts = None
          /\ Ends(h, "try", <<>>)
       \/ /\ thread_ts # None
          /\ \/ \E e \in SlackErrors :
                  Ends(h, "raised", <<SlackCall("find_parent_message", thread_ts, <<>>, e)>>)
             \/ Ends(h, IF MentionSkips(thread_ts, FindParent) THEN "returned" ELSE "try",
                     <<SlackCall("find_parent_message", thread_ts, <<>>, FindParent)>>)
    /\ UNCHANGED <<api_key, slack_thread>>
    /\ UNCHANGED genVars

\* respond_to_app_mention without an API key: tell the user, return
MentionConfigureKey(h) ==
    /\ handlers[h].lpc = "try"
    /\ api_key = None
    /\ \E res \in {"ok"} \cup SlackErrors :
          Ends(h, "returned", <<SlackCall("chat_postMessage", 0, <<ConfigureKeyText>>, res)>>)
    /\ UNCHANGED <<api_key, slack_thread>>
    /\ UNCHANGED genVars

MentionHasKey(h) ==
    /\ handlers[h].lpc = "try"
    /\ api_key # None
    /\ Ends(h, "post", <<>>)
    /\ UNCHANGED <<api_key, slack_thread>>
    /\ UNCHANGED genVars

\* respond_to_new_message up to post_wip_message
NewMessageRoute(h) ==
    /\ handlers[h].lpc = "message"
    /\ LET p == handlers[h].req.payload
           replies(res) == SlackCall("conversations_replies", p.thread_ts, <<>>, res)
           parent(res) == SlackCall("find_parent_message", p.thread_ts, <<>>, res)
       IN
       \/ /\ p.bot_id # None /\ p.bot_id # "own_bot"
          /\ Ends(h, "returned", <<>>)
       \/ /\ ~(p.bot_id # None /\ p.bot_id # "own_bot")
          /\ api_key = None
          /\ Ends(h, "returned", <<>>)
       \/ /\ ~(p.bot_id # None /\ p.bot_id # "own_bot")
          /\ api_key # None
          /\ \/ /\ p.channel_type # "im" /\ p.thread_ts = None
                /\ Ends(h, "returned", <<>>)
             \/ /\ p.channel_type = "im" /\ p.thread_ts = None
                /\ Ends(h, "post", <<>>)
             \/ /\ p.thread_ts # None
                /\ \/ \E e \in SlackErrors : Ends(h, "returned", <<replies(e)>>)
                   \/ /\ p.channel_type # "im" /\ ~slack_thread.in_replies
                      /\ \E e \in SlackErrors :
                            Ends(h, "returned", <<replies("ok"), parent(e)>>)
                   \/ Ends(h, IF IsThreadForThisApp(p) THEN "post" ELSE "returned",
                           IF p.channel_type # "im" /\ ~slack_thread.in_replies
                           THEN <<replies("ok"), parent(FindParent)>>
                           ELSE <<replies("ok")>>)
    /\ UNCHANGED <<api_key, slack_thread>>
    /\ UNCHANGED genVars

\* ------------------------------------------------ placeholder, answer, update
\* the request the app's own edit of a message comes back as
AfterEdit(hs, p) ==
    IF Len(hs) < MaxRequests THEN Append(hs, NewHandler(EditEvent(p))) ELSE hs

\* mutant: the client's timeout error is not caught as a timeout
IsTimeoutBuiltinOnly(e) == e = "TimeoutError"

\* except (APITimeoutError, TimeoutError)
IsTimeout(e) == e \in {"APITimeoutError", "TimeoutError"}

\* mutant: the timeout handler leaves the placeholder as it is
TimeoutUpdatesNever(wip_reply) == FALSE

\* if wip_reply is not None, in the timeout handler
TimeoutUpdates(wip_reply) == wip_reply.posted

\* if wip_reply is not None, in the handler of any other exception
ErrorUpdates(wip_reply) == wip_reply.posted

TimeoutText(wip_reply) == <<wip_reply.text, "\n\n", TIMEOUT_ERROR_MESSAGE>>

FailurePrefix(req) ==
    IF req.type = "app_mention" THEN MentionFailurePrefix ELSE MessageFailurePrefix

FailureText(req, wip_reply, e) == <<wip_reply.text, "\n\n", FailurePrefix(req), e>>

\* post_wip_message: the placeholder is posted, or the call fails
PostWip(h) ==
    /\ handlers[h].lpc = "post"
    /\ \/ handlers' = [handlers EXCEPT ![h] =
             [handlers[h] EXCEPT
                 !.wip_reply = [posted |-> TRUE, ts |-> h, text |-> DEFAULT_LOADING_TEXT],
                 !.lpc = "generate",
                 !.calls = Append(@, SlackCall("post_wip_message", h,
                                                <<DEFAULT_LOADING_TEXT>>, "ok"))]]
       \/ \E e \in SlackErrors :
             handlers' = [handlers EXCEPT ![h] =
                [handlers[h] EXCEPT
                    !.lpc = "on_error",
                    !.exc = e,
                    !.calls = Append(@, SlackCall("post_wip_message", h,
                                                   <<DEFAULT_LOADING_TEXT>>, e))]]
    /\ UNCHANGED <<api_key, slack_thread>>
    /\ UNCHANGED genVars

\* generate_assistant_response has ended for the listener of handler h
Generated(h, text, e) ==
    handlers' = [handlers EXCEPT ![h] =
        [handlers[h] EXCEPT
            !.outcome = [ended |-> TRUE, raised |-> e, text |-> text],
            !.exc = e,
            !.lpc = IF e = None THEN "update"
                    ELSE IF IsTimeout(e) THEN "on_timeout"
                    ELSE "on_error"]]

\* the listener calls generate_assistant_response
CallGenerate(h) ==
    /\ handlers[h].lpc = "generate"
    /\ pc = "idle"
    /\ pc' = "create_thread"
    /\ handlers' = [handlers EXCEPT ![h].lpc = "generating"]
    /\ UNCHANGED <<api_key, slack_thread>>
    /\ UNCHANGED <<assistant_id, timeout_seconds, now, start_time, thread_id, run,
                   messages, text_content, message_value, file_citations,
                   citation_indices, citations, ann_i, trace, logged, result, raised>>

\* generate_assistant_response returns to, or raises into, the listener: the
\* listener keeps the text or the exception, the frame of the call is gone
GenerateReturns(h) ==
    /\ handlers[h].lpc = "generating"
    /\ pc = "done"
    /\ Generated(h, result, raised)
    /\ pc' = "idle"
    /\ now' = 0
    /\ start_time' = 0
    /\ thread_id' = None
    /\ run' = NoRun
    /\ messages' = <<>>
    /\ text_content' = NoText
    /\ message_value' = <<>>
    /\ file_citations' = <<>>
    /\ citation_indices' = <<>>
    /\ citations' = <<>>
    /\ ann_i' = 0
    /\ trace' = <<>>
    /\ logged' = <<>>
    /\ result' = <<>>
    /\ raised' = None
    /\ UNCHANGED <<assistant_id, timeout_seconds, api_key, slack_thread>>

\* the ways generate_assistant_response ends, as its caller sees them
GenerateOutcomes ==
    [text : {<<"x">>, NoAssistantText}, raised : {None}]
    \cup [text : {<<>>}, raised : {"TimeoutError"} \cup RemoteErrors]

\* the call and its outcome in one step
GenerateSummary(h) ==
    /\ handlers[h].lpc = "generate"
    /\ \E o \in GenerateOutcomes : Generated(h, o.text, o.raised)
    /\ UNCHANGED <<api_key, slack_thread>>
    /\ UNCHANGED genVars

\* a chat_update of the placeholder of handler h: done, leading to lpc ok, or
\* failed with e, leading to lpc failed
ChatUpdate(h, text, ok, failed) ==
    \/ handlers' = AfterEdit(
          [handlers EXCEPT ![h] =
              [handlers[h] EXCEPT
                  !.lpc = ok,
                  !.calls = Append(@, SlackCall("chat_update", handlers[h].wip_reply.ts,
                                                 text, "ok"))]],
          handlers[h].req.payload)
    \/ \E e \in SlackErrors :
          handlers' = [handlers EXCEPT ![h] =
              [handlers[h] EXCEPT
                  !.lpc = failed,
                  !.exc = e,
                  !.calls = Append(@, SlackCall("chat_update", handlers[h].wip_reply.ts,
                                                 text, e))]]

\* lines 67-71 and 176-180: the answer replaces the placeholder
UpdateAnswer(h) ==
    /\ handlers[h].lpc = "update"
    /\ ChatUpdate(h, handlers[h].outcome.text, "returned", "on_error")
    /\ UNCHANGED <<api_key, slack_thread>>
    /\ UNCHANGED genVars

\* except (APITimeoutError, TimeoutError): an exception of the update leaves
\* the listener
OnTimeout(h) ==
    /\ handlers[h].lpc = "on_timeout"
    /\ IF TimeoutUpdates(handlers[h].wip_reply)
       THEN ChatUpdate(h, TimeoutText(handlers[h].wip_reply), "returned", "raised")
       ELSE handlers' = [handlers EXCEPT ![h].lpc = "returned"]
    /\ UNCHANGED <<api_key, slack_thread>>
    /\ UNCHANGED genVars

\* except Exception as e: logged, and shown if there is a placeholder
OnError(h) ==
    /\ handlers[h].lpc = "on_error"
    /\ LET text == FailureText(handlers[h].req, handlers[h].wip_reply, handlers[h].exc)
           told == [handlers EXCEPT ![h].calls =
                       Append(@, SlackCall("logger.exception", 0, text, "ok"))]
       IN
       IF ErrorUpdates(handlers[h].wip_reply)
       THEN \/ handlers' = AfterEdit(
                  [told EXCEPT ![h] =
                      [told[h] EXCEPT
                          !.lpc = "returned",
                          !.calls = Append(@, SlackCall("chat_update",
                                            told[h].wip_reply.ts, text, "ok"))]],
                  told[h].req.payload)
            \/ \E e \in SlackErrors :
                  handlers' = [told EXCEPT ![h] =
                      [told[h] EXCEPT
                          !.lpc = "raised",
                          !.exc = e,
                          !.calls = Append(@, SlackCall("chat_update",
                                            told[h].wip_reply.ts, text, e))]]
       ELSE handlers' = [told EXCEPT ![h].lpc = "returned"]
    /\ UNCHANGED <<api_key, slack_thread>>
    /\ UNCHANGED genVars

\* ------------------------------------------------ the specifications of the listeners
\* one user message, every request it is delivered as, both listeners
InitEvents ==
    /\ pc = "idle"
    /\ assistant_id = "asst_1"
    /\ timeout_seconds = 0
    /\ now = 0
    /\ start_time = 0
    /\ thread_id = None
    /\ run = NoRun
    /\ messages = <<>>
    /\ text_content = NoText
    /\ message_value = <<>>
    /\ file_citations = <<>>
    /\ citation_indices = <<>>
    /\ citations = <<>>
    /\ ann_i = 0
    /\ trace = <<>>
    /\ logged = <<>>
    /\ result = <<>>
    /\ raised = None
    /\ api_key \in {None, "key"}
    /\ \E p \in Payloads :
          /\ slack_thread \in Threads(p)
          /\ handlers \in { NewHandlers(d) : d \in Deliveries(p) }

NextEvents ==
    \/ \E h \in DOMAIN handlers : BeforeAuthorize(h)
    \/ \E h \in DOMAIN handlers : MentionRoute(h)
    \/ \E h \in DOMAIN handlers : MentionConfigureKey(h)
    \/ \E h \in DOMAIN handlers : MentionHasKey(h)
    \/ \E h \in DOMAIN handlers : NewMessageRoute(h)
    \/ \E h \in DOMAIN handlers : PostWip(h)
    \/ \E h \in DOMAIN handlers : GenerateSummary(h)
    \/ \E h \in DOMAIN handlers : UpdateAnswer(h)
    \/ \E h \in DOMAIN handlers : OnTimeout(h)
    \/ \E h \in DOMAIN handlers : OnError(h)

SpecEvents == InitEvents /\ [][NextEvents]_vars

\* the payloads of the single-request specification
ListenerPayloads == { p \in Payloads : p.bot_id # "own_bot" }

\* one request, its listener, and the whole of generate_assistant_response
InitListener ==
    /\ pc = "idle"
    /\ assistant_id \in AssistantIds
    /\ timeout_seconds \in 0..MaxTimeout
    /\ now = 0
    /\ start_time = 0
    /\ thread_id = None
    /\ run = NoRun
    /\ messages = <<>>
    /\ text_content = NoText
    /\ message_value = <<>>
    /\ file_citations = <<>>
    /\ citation_indices = <<>>
    /\ citations = <<>>
    /\ ann_i = 0
    /\ trace = <<>>
    /\ logged = <<>>
    /\ result = <<>>
    /\ raised = None
    /\ api_key \in {None, "key"}
    /\ \E p \in ListenerPayloads :
          /\ slack_thread \in Threads(p)
          /\ handlers \in {<<NewHandler(MessageEvent(p, None))>>}
                \cup (IF p.channel_type = "channel"
                      THEN {<<NewHandler(AppMention(p))>>} ELSE {})

NextListener ==
    \/ \E h \in DOMAIN handlers : BeforeAuthorize(h)
    \/ \E h \in DOMAIN handlers : MentionRoute(h)
    \/ \E h \in DOMAIN handlers : MentionConfigureKey(h)
    \/ \E h \in DOMAIN handlers : MentionHasKey(h)
    \/ \E h \in DOMAIN handlers : NewMessageRoute(h)
    \/ \E h \in DOMAIN handlers : PostWip(h)
    \/ \E h \in DOMAIN handlers : CallGenerate(h)
    \/ \E h \in DOMAIN handlers : GenerateReturns(h)
    \/ \E h \in DOMAIN handlers : UpdateAnswer(h)
    \/ \E h \in DOMAIN handlers : OnTimeout(h)
    \/ \E h \in DOMAIN handlers : OnError(h)
    \/ Next

SpecListener == InitListener /\ [][NextListener]_vars

\* ------------------------------------------------------ reading the trace
Calls(op) == { k \in 1..Len(trace) : trace[k].op = op }
NCalls(op) == Cardinality(Calls(op))

\* the positions where createRun / retrieveRun answered with a run
StatusAnswers ==
    { k \in 1..Len(trace) :
        /\ trace[k].op \in {"createRun", "retrieveRun"}
        /\ trace[k].res \notin RemoteErrors }

\* every createRun / retrieveRun so far answered in_progress
StaysInProgress ==
    \A k \in Calls("createRun") \cup Calls("retrieveRun") :
        trace[k].res = "in_progress"

\* the number of "\n"-separated footnote lines a text ends with, for a text
\* whose body and filenames hold no newline
FootnoteLineCount(text) ==
    LET n == Cardinality({ k \in 1..Len(text) : text[k] = "\n" })
    IN  IF n = 0 THEN 0 ELSE n - 1

\* the file ids an annotation sequence refers to
FileIdsOf(anns) == { anns[k].file_id : k \in { j \in 1..Len(anns) : HasFile(anns[j]) } }

\* the position at which file id f first appears
FirstSeen(anns, f) ==
    CHOOSE k \in 1..Len(anns) :
        /\ HasFile(anns[k]) /\ anns[k].file_id = f
        /\ \A j \in 1..(k - 1) : ~(HasFile(anns[j]) /\ anns[j].file_id = f)

\* every files.retrieve so far answered with a file
LookupsSucceeded == \A k \in Calls("retrieveFile") : trace[k].res \notin RemoteErrors
LookupFailed == \E k \in Calls("retrieveFile") : trace[k].res \in RemoteErrors

\* process_citations has returned
CiteDone == pc = "done" /\ text_content # NoText

\* ----------------------------------------------------------------- claims

\* C1: while every createRun/retrieveRun answer is in_progress, a deadline
\* check raises TimeoutError exactly when the elapsed time it sees is
\* strictly greater than timeout_seconds; the raising check is the first
\* such check and ends the invocation.
C1_DeadlineMonotonicity ==
    StaysInProgress =>
        /\ \A k \in Calls("check") :
            /\ (trace[k].res = "TimeoutError") <=> (trace[k].at > timeout_seconds)
            /\ trace[k].res = "TimeoutError" =>
                /\ k = Len(trace)
                /\ Raises("TimeoutError")
                /\ \A j \in Calls("check") : j < k => trace[j].at <= timeout_seconds
        /\ Raises("TimeoutError") =>
            /\ Len(trace) > 0
            /\ trace[Len(trace)].op = "check"
            /\ trace[Len(trace)].at > timeout_seconds

C1_Witness ==
    /\ StaysInProgress
    /\ Raises("TimeoutError")
    /\ timeout_seconds >= 1
    /\ NCalls("check") >= 2
    /\ NCalls("retrieveRun") >= 1

\* C2: with no assistant id, createRun, retrieveRun, listMessages and
\* retrieveFile are never called, and once the thread and the message exist
\* the invocation ends at once by returning the configuration-error text.
C2_NoAssistantNoRun ==
    assistant_id = None =>
        /\ NCalls("createRun") = 0
        /\ NCalls("retrieveRun") = 0
        /\ NCalls("listMessages") = 0
        /\ NCalls("retrieveFile") = 0
        /\ raised # "TimeoutError"
        /\ (pc \notin {"create_thread", "create_message", "start_run"}
            /\ \E k \in Calls("createMessage") : trace[k].res = "ok")
           => /\ Returned
              /\ result = NoAssistantText
              /\ Len(trace) = 2

C2_Witness ==
    /\ assistant_id = None
    /\ Returned
    /\ result = NoAssistantText
    /\ NCalls("createMessage") = 1

\* C3: when every file lookup succeeds, the number of footnote lines in the
\* returned text equals the number of distinct file ids in the annotation
\* sequence, and so is at most the number of annotations.
C3_CitationDedup ==
    (CiteDone /\ LookupsSucceeded) =>
        LET anns == AnnotationsOf(text_content)
        IN  /\ Returned
            /\ FootnoteLineCount(result) = Cardinality(FileIdsOf(anns))
            /\ Len(citations) = Cardinality(FileIdsOf(anns))
            /\ FootnoteLineCount(result) <= Len(anns)

C3_Witness ==
    /\ CiteDone /\ LookupsSucceeded
    /\ Len(AnnotationsOf(text_content)) = 3
    /\ Cardinality(FileIdsOf(AnnotationsOf(text_content))) = 2
    /\ FootnoteLineCount(result) = 2

\* C4: when every file lookup succeeds, the citation indices are exactly
\* 1..k for the k distinct file ids, a file id first seen earlier has the
\* smaller index, and footnote line j is the line of the file with index j.
C4_FirstSeenOrdering ==
    (CiteDone /\ LookupsSucceeded /\ ~NoAnnotations(AnnotationsOf(text_content))) =>
        LET anns == AnnotationsOf(text_content)
            ids == FileIdsOf(anns)
            k == Cardinality(ids)
        IN  /\ { citation_indices[j][1] : j \in 1..Len(citation_indices) } = ids
            /\ { citation_indices[j][2] : j \in 1..Len(citation_indices) } = 1..k
            /\ Len(citation_indices) = k
            /\ \A f \in ids, g \in ids :
                FirstSeen(anns, f) < FirstSeen(anns, g)
                    => DictGet(citation_indices, f) < DictGet(citation_indices, g)
            /\ Len(citations) = k
            /\ \A j \in 1..k :
                \E f \in ids :
                    /\ DictGet(citation_indices, f) = j
                    /\ citations[j] = <<"[">> \o Str(j)
                            \o <<"]", " Citation from ", DictGet(file_citations, f)>>
            /\ result = SecondPass(text_content.value, anns, 1, citation_indices)
                        \o (IF k = 0 THEN <<>>
                            ELSE <<"\n", "\n">> \o Join(citations, <<"\n">>))

C4_Witness ==
    /\ CiteDone /\ LookupsSucceeded
    /\ Len(AnnotationsOf(text_content)) = 3
    /\ AnnotationsOf(text_content)[1].file_id = "file_2"
    /\ AnnotationsOf(text_content)[2].file_id = "file_1"
    /\ AnnotationsOf(text_content)[3].file_id = "file_2"
    /\ DictGet(citation_indices, "file_2") = 1
    /\ DictGet(citation_indices, "file_1") = 2

\* C5: with an empty or absent annotation sequence process_citations returns
\* the value unchanged and never calls retrieveFile.
C5_NoOpOnEmpty ==
    (pc # "cite" /\ text_content # NoText
     /\ (~text_content.has_annotations \/ Len(text_content.annotations) = 0)) =>
        /\ Returned
        /\ result = text_content.value
        /\ NCalls("retrieveFile") = 0

C5_Witness ==
    /\ CiteDone
    /\ ~text_content.has_annotations
    /\ Len(text_content.value) > 0
    /\ result = text_content.value

\* C6: once a file lookup has raised, process_citations has returned exactly
\* the original value (no marker, no footnote) and raised nothing.
C6_FailSoft ==
    LookupFailed =>
        /\ Returned
        /\ result = text_content.value
        /\ citations = <<>>

C6_Witness ==
    /\ LookupFailed
    /\ Returned
    /\ NCalls("retrieveFile") = 2
    /\ text_content.value = <<"x", "y">>
    /\ AnnotationsOf(text_content)[1].text = <<"x">>

\* C7: a run that ends in a status other than completed makes the invocation
\* return a text containing that status, without raising, listing messages
\* or looking up files.
C7_NonCompletedReported ==
    (pc # "loop" /\ run.status \in Statuses \ {"queued", "in_progress", "completed"}) =>
        /\ Returned
        /\ Contains(result, run.status)
        /\ NCalls("listMessages") = 0
        /\ NCalls("retrieveFile") = 0

C7_Witness ==
    /\ Returned
    /\ run.status = "expired"
    /\ NCalls("retrieveRun") >= 1
    /\ Contains(result, "expired")

\* C8 as stated: when the run failed, the returned text carries last_error.
C8_ResultCarriesLastError ==
    (pc = "done" /\ run.status = "failed") => Contains(result, run.last_error)

\* C8, amended: when the run failed, the returned text is the status
\* description alone (it names "failed" and not last_error), and last_error
\* is given to the logger as an error record.
C8_LastErrorLoggedOnly ==
    (pc = "done" /\ run.status = "failed") =>
        /\ Returned
        /\ result = <<"Error: The operation failed with status: ", "failed">>
        /\ ~Contains(result, run.last_error)
        /\ \E k \in 1..Len(logged) :
            /\ logged[k].level = "error"
            /\ Contains(logged[k].msg, run.last_error)

C8_Witness ==
    /\ Returned
    /\ run.status = "failed"
    /\ run.last_error = "server_error"
    /\ NCalls("retrieveRun") >= 1

\* C9: once a terminal status has been observed (and whenever the loop was
\* left without an exception), the number of retrieveRun calls equals the
\* number of queued/in_progress answers observed, and no timeout is raised;
\* each retrieveRun directly follows one deadline check after a
\* queued/in_progress answer.
C9_OneFetchPerIteration ==
    LET observed == { k \in StatusAnswers : trace[k].res \in {"queued", "in_progress"} }
    IN  /\ (run.status \in Statuses \ {"queued", "in_progress"}) =>
            /\ NCalls("retrieveRun") = Cardinality(observed)
            /\ raised # "TimeoutError"
            /\ trace[Len(trace)].op = "retrieveRun" => trace[Len(trace)].res = run.status
        /\ (NCalls("createRun") = 1 /\ (Returned \/ pc \in {"cite", "pass1"})) =>
            NCalls("retrieveRun") = Cardinality(observed)
        /\ NCalls("retrieveRun") <= Cardinality(observed)
        /\ \A k \in Calls("retrieveRun") :
            /\ k > 2
            /\ trace[k - 1].op = "check"
            /\ trace[k - 2].op \in {"createRun", "retrieveRun"}
            /\ trace[k - 2].res \in {"queued", "in_progress"}

C9_Witness ==
    /\ Len(trace) = 9
    /\ trace[3].op = "createRun" /\ trace[3].res = "queued"
    /\ trace[5].op = "retrieveRun" /\ trace[5].res = "in_progress"
    /\ trace[7].op = "retrieveRun" /\ trace[7].res = "in_progress"
    /\ trace[9].op = "retrieveRun" /\ trace[9].res = "completed"
    /\ NCalls("retrieveRun") = 3
    /\ timeout_seconds = MaxTimeout
    /\ raised = None

\* C10: listMessages is called at most once, only when the last observed run
\* status is completed, after createRun and after every retrieveRun.
C10_ListOnlyAfterCompleted ==
    /\ NCalls("listMessages") <= 1
    /\ \A k \in Calls("listMessages") :
        /\ run.status = "completed"
        /\ \E c \in Calls("createRun") : c < k
        /\ \A r \in Calls("retrieveRun") : r < k
        /\ LET before == { j \in StatusAnswers : j < k }
           IN  /\ before # {}
               /\ \A j \in before : (\A i \in before : i <= j) => trace[j].res = "completed"
               /\ \A j \in Calls("createRun") \cup Calls("retrieveRun") : j \in before

C10_Witness ==
    /\ NCalls("listMessages") = 1
    /\ NCalls("retrieveRun") >= 2
    /\ pc = "done"

\* messages.list has answered
Listed == \E k \in Calls("listMessages") : trace[k].res = "ok"

\* C11: after a completed run, an empty message list gives the "no response"
\* text and a newest message without a text block gives the different "no
\* text content" text, both returned; otherwise the text block handed to
\* process_citations is the first text block of the newest message, and the
\* returned text is what process_citations makes of that block alone.
C11_Extraction ==
    /\ NoResponseText # NoTextContentText
    /\ Listed =>
        /\ run.status = "completed"
        /\ Len(messages) = 0 => (Returned /\ result = NoResponseText)
        /\ Len(messages) > 0 =>
            LET content == messages[1].content
                texts == { j \in 1..Len(content) : content[j].type = "text" }
            IN  /\ texts = {} => (Returned /\ result = NoTextContentText)
                /\ texts # {} =>
                    LET first == CHOOSE j \in texts : \A i \in texts : j <= i
                        anns == AnnotationsOf(content[first].text)
                    IN  /\ text_content = content[first].text
                        /\ pc = "done" =>
                            /\ Returned
                            /\ result =
                                IF LookupFailed THEN content[first].text.value
                                ELSE WithFootnotes(
                                        SecondPass(content[first].text.value, anns, 1,
                                                   citation_indices),
                                        FootnoteLines(file_citations, citation_indices))

C11_Witness ==
    /\ Listed
    /\ Returned
    /\ Len(messages) = 1
    /\ Len(messages[1].content) = 2
    /\ messages[1].content[1].type = "text"
    /\ messages[1].content[2].type = "text"
    /\ messages[1].content[1].text.value = <<"a", "x">>
    /\ messages[1].content[2].text.value = <<"y">>
    /\ result = <<"a", " ", "[", "1", "]", "\n", "\n", "[", "1", "]",
                  " Citation from ", "p">>

\* every remote call so far took no time: the clock shows the sleeps alone
Instantaneous == now - start_time = NCalls("retrieveRun")

\* C14: every retrieveRun is issued at an elapsed time of at most
\* timeout_seconds + 1 (with instantaneous calls the clock itself never
\* passes timeout_seconds + 1), and the raising deadline check is the last
\* thing the invocation does.
C14_BoundedOvershoot ==
    /\ \A k \in Calls("retrieveRun") : trace[k].at <= timeout_seconds + 1
    /\ Instantaneous =>
        /\ now - start_time <= timeout_seconds + 1
        /\ \A k \in Calls("retrieveRun") :
            trace[k].at = Cardinality({ j \in Calls("retrieveRun") : j <= k })
    /\ raised = "TimeoutError" =>
        /\ pc = "done"
        /\ trace[Len(trace)].op = "check"
        /\ trace[Len(trace)].res = "TimeoutError"
        /\ NCalls("listMessages") = 0
        /\ NCalls("retrieveFile") = 0
        /\ ~ENABLED Next

C14_Witness ==
    /\ Instantaneous
    /\ Raises("TimeoutError")
    /\ timeout_seconds = MaxTimeout
    /\ \E k \in Calls("retrieveRun") : trace[k].at = timeout_seconds + 1

\* the number of non-overlapping occurrences of a non-empty p in s
RECURSIVE CountFrom(_, _, _)
CountFrom(s, i, p) ==
    IF i > Len(s) THEN 0
    ELSE IF StartsAt(s, i, p) THEN 1 + CountFrom(s, i + Len(p), p)
    ELSE CountFrom(s, i + 1, p)

Occurs(s, p) == \E i \in 1..Len(s) : StartsAt(s, i, p)

\* two span texts share a character
Overlap(p, q) == \E i \in 1..Len(p), j \in 1..Len(q) : p[i] = q[j]

\* C15: when every lookup succeeds, every annotation with a file whose span
\* occurs in the value (once per annotation carrying that span, and touched
\* by no annotation with another span) has the marker of its own file's
\* index in the returned text, also when annotations of different files
\* carry the same span and when the span occurs more than once.
C15_OwnMarkerSubstituted ==
    (CiteDone /\ LookupsSucceeded) =>
        LET anns == AnnotationsOf(text_content)
            value == text_content.value
        IN  \A k \in 1..Len(anns) :
                (/\ HasFile(anns[k])
                 /\ \A j \in 1..Len(anns) :
                        anns[j].text = anns[k].text \/ ~Overlap(anns[j].text, anns[k].text)
                 /\ CountFrom(value, 1, anns[k].text)
                        >= Cardinality({ j \in 1..Len(anns) : anns[j].text = anns[k].text }))
                => Occurs(result, Marker(DictGet(citation_indices, anns[k].file_id)))

\* the file ids of the first n annotations
FileIdsUpTo(anns, n) == { anns[k].file_id : k \in { j \in 1..n : HasFile(anns[j]) } }

\* C16: while no lookup has failed, the retrieveFile calls made when the
\* first pass stands at annotation i are one per distinct file id among the
\* annotations before i, in first-seen order, each made once; after the
\* pass that is one call per distinct file id, and the working text is
\* untouched until the pass is over.
C16_OneLookupPerFile ==
    (text_content # NoText /\ pc \in {"pass1", "done"} /\ LookupsSucceeded
     /\ ~NoAnnotations(AnnotationsOf(text_content))) =>
        LET anns == AnnotationsOf(text_content)
            seen == FileIdsUpTo(anns, ann_i - 1)
            looked == [k \in 1..NCalls("retrieveFile") |->
                        trace[CHOOSE j \in Calls("retrieveFile") :
                                Cardinality({ i \in Calls("retrieveFile") : i <= j }) = k].arg]
        IN  /\ NCalls("retrieveFile") = Cardinality(seen)
            /\ { looked[k] : k \in 1..Len(looked) } = seen
            /\ \A k \in 1..Len(looked), j \in 1..Len(looked) :
                k < j => FirstSeen(anns, looked[k]) < FirstSeen(anns, looked[j])
            /\ pc = "pass1" => message_value = text_content.value
            /\ pc = "done" =>
                /\ ann_i = Len(anns) + 1
                /\ NCalls("retrieveFile") = Cardinality(FileIdsOf(anns))

C16_Witness ==
    /\ CiteDone /\ LookupsSucceeded
    /\ Len(AnnotationsOf(text_content)) = 3
    /\ AnnotationsOf(text_content)[1].file_id = "file_1"
    /\ AnnotationsOf(text_content)[2].file_id = "file_2"
    /\ AnnotationsOf(text_content)[3].file_id = "file_1"
    /\ NCalls("retrieveFile") = 2

\* C17: createThread is called exactly once and createRun at most once, and
\* createMessage, createRun, retrieveRun and listMessages all name the
\* thread createThread answered with; retrieveRun names the run createRun
\* answered with.
C17_OneSessionOneRun ==
    /\ NCalls("createThread") = (IF pc = "create_thread" THEN 0 ELSE 1)
    /\ NCalls("createRun") <= 1
    /\ \A k \in Calls("createMessage") \cup Calls("listMessages") :
        /\ trace[1].op = "createThread"
        /\ trace[k].arg = trace[1].res
    /\ \A k \in Calls("createRun") :
        /\ trace[1].op = "createThread"
        /\ trace[k].arg[1] = trace[1].res
    /\ \A k \in Calls("retrieveRun") :
        \E c \in Calls("createRun") :
            /\ c < k
            /\ trace[k].arg = <<trace[1].res, trace[c].id>>

C17_Witness ==
    /\ pc = "done"
    /\ trace[1].res = "thread_2"
    /\ NCalls("retrieveRun") >= 2
    /\ NCalls("listMessages") = 1

\* the stages of an invocation, counted down
PcRank ==
    CASE pc = "create_thread" -> 6
      [] pc = "create_message" -> 5
      [] pc = "start_run" -> 4
      [] pc = "loop" -> 3
      [] pc = "cite" -> 2
      [] pc = "pass1" -> 1
      [] OTHER -> 0

\* what is left of the current stage: seconds up to the deadline in the poll
\* loop, annotations in the first pass
StageLeft ==
    CASE pc = "loop" ->
            IF now - start_time > timeout_seconds THEN 0
            ELSE timeout_seconds + 1 - (now - start_time)
      [] pc = "pass1" -> Len(AnnotationsOf(text_content)) + 1 - ann_i
      [] OTHER -> 0

\* an invocation has ended in exactly one way
EndedOneWay ==
    \/ raised = None
    \/ raised = "TimeoutError" /\ result = <<>>
    \/ raised \in RemoteErrors /\ result = <<>>

\* C18: every step of an invocation moves it to a later stage or shortens
\* what is left of its stage (so the poll loop makes at most
\* timeout_seconds + 1 polls), an invocation that has not ended can take a
\* step, and one that has ended has returned a text, raised the timeout or
\* raised a remote call's error.
C18_Termination ==
    /\ [](pc # "done" => ENABLED Next)
    /\ [](NCalls("retrieveRun") <= timeout_seconds + 1)
    /\ [](pc = "done" => EndedOneWay)
    /\ [][PcRank' < PcRank \/ (PcRank' = PcRank /\ StageLeft' < StageLeft)]_vars

C18_Witness ==
    /\ Raises("TimeoutError")
    /\ NCalls("retrieveRun") = timeout_seconds + 1
    /\ timeout_seconds = MaxTimeout
    /\ \A k \in StatusAnswers : trace[k].res \in {"queued", "in_progress"}

\* ------------------------------------------------ reading a handler
\* the listener of handler h has been left, by return or by an exception
Left(h) == handlers[h].lpc \in {"returned", "raised"}

\* the positions of the chat_update calls of handler h
Updates(h) ==
    { k \in DOMAIN handlers[h].calls : handlers[h].calls[k].op = "chat_update" }

\* the chat_update calls of handler h that carry this text
UpdatesWith(h, text) ==
    { k \in Updates(h) : handlers[h].calls[k].text = text }

\* handler h made a chat_update with a failure text
FailureShown(h) ==
    \E k \in Updates(h) :
        /\ Len(handlers[h].calls[k].text) = 4
        /\ handlers[h].calls[k].text[3] \in {MentionFailurePrefix, MessageFailurePrefix}

\* the text the first chat_update of handler h has to carry
DueText(h) ==
    LET hd == handlers[h] IN
    IF hd.outcome.raised = None THEN hd.outcome.text
    ELSE IF hd.outcome.raised \in {"TimeoutError", "APITimeoutError"}
         THEN <<hd.wip_reply.text, "\n\n", TIMEOUT_ERROR_MESSAGE>>
    ELSE <<hd.wip_reply.text, "\n\n", FailurePrefix(hd.req), hd.outcome.raised>>

\* C12: in both listeners, once the placeholder is posted, the listener is
\* not left before generate_assistant_response has ended and a chat_update
\* of that placeholder has been attempted: the first attempt carries the
\* answer when a text was returned, the timeout message after a timeout and
\* a failure text after any other exception; before the placeholder is
\* posted no chat_update is made.
C12_NoAnswerDropped ==
    \A h \in DOMAIN handlers :
        LET hd == handlers[h] IN
        /\ (hd.wip_reply.posted /\ Left(h)) =>
              /\ hd.outcome.ended
              /\ Updates(h) # {}
              /\ \A k \in Updates(h) : hd.calls[k].arg = hd.wip_reply.ts
              /\ LET first == CHOOSE k \in Updates(h) : \A j \in Updates(h) : k <= j
                 IN /\ hd.calls[first].text = DueText(h)
                    /\ \E j \in 1..(first - 1) :
                          /\ hd.calls[j].op = "post_wip_message"
                          /\ hd.calls[j].res = "ok"
        /\ ~hd.wip_reply.posted => Updates(h) = {}

C12_Witness ==
    \E h \in DOMAIN handlers :
        /\ handlers[h].req.type = "message"
        /\ handlers[h].lpc = "returned"
        /\ handlers[h].outcome.raised = "TimeoutError"
        /\ Cardinality(Updates(h)) = 1
        /\ \A k \in Updates(h) :
              /\ handlers[h].calls[k].res = "ok"
              /\ handlers[h].calls[k].text = TimeoutText(handlers[h].wip_reply)

Responds(h) ==
    \/ handlers[h].lpc \in {"post", "generate", "generating", "update", "on_timeout"}
    \/ handlers[h].outcome.ended
    \/ \E k \in DOMAIN handlers[h].calls : handlers[h].calls[k].op = "post_wip_message"

\* C19: when one message of a channel is delivered both as an app_mention
\* event and as a message event, and Slack gives both listeners the same
\* parent of the thread, respond_to_app_mention and respond_to_new_message
\* never both post a placeholder and generate, in any interleaving; no
\* more than one handler of a delivery ever does.
C19_NoDoubleReply ==
    /\ \A a, m \in DOMAIN handlers :
          (/\ handlers[a].req.type = "app_mention"
           /\ handlers[m].req.type = "message"
           /\ handlers[m].req.payload = handlers[a].req.payload
           /\ handlers[a].req.payload.channel_type # "im")
          => ~(Responds(a) /\ Responds(m))
    /\ Cardinality({ h \in DOMAIN handlers : Responds(h) }) <= 1

C19_Witness ==
    /\ Len(handlers) >= 2
    /\ handlers[1].req.type = "app_mention"
    /\ handlers[2].req.type = "message"
    /\ handlers[2].req.payload = handlers[1].req.payload
    /\ slack_thread.parent = "mentions"
    /\ handlers[1].lpc = "returned"
    /\ handlers[1].calls # <<>>
    /\ ~Responds(1)
    /\ handlers[2].lpc = "returned"
    /\ handlers[2].outcome.ended
    /\ handlers[2].wip_reply.posted

\* C20: a message event with subtype message_changed or message_deleted is
\* answered 200 by before_authorize, next_ is not called and no listener
\* does anything for it; for every other request before_authorize calls
\* next_ once and gives no response itself.
C20_EditsSkipped ==
    \A h \in DOMAIN handlers :
        LET hd == handlers[h] IN
        IF /\ hd.req.is_event
           /\ hd.req.type = "message"
           /\ hd.req.subtype \in {"message_changed", "message_deleted"}
        THEN /\ hd.lpc \in {"new", "answered"}
             /\ hd.next_calls = 0
             /\ hd.calls = <<>>
             /\ ~Responds(h)
             /\ hd.response = (IF hd.lpc = "new" THEN None ELSE "200")
        ELSE /\ hd.lpc # "answered"
             /\ hd.response = None
             /\ hd.next_calls = (IF hd.lpc = "new" THEN 0 ELSE 1)

C20_Witness ==
    /\ Len(handlers) >= 2
    /\ handlers[1].req.subtype = None
    /\ handlers[1].next_calls = 1
    /\ \E k \in Updates(1) : handlers[1].calls[k].res = "ok"
    /\ handlers[Len(handlers)].req.subtype = "message_changed"
    /\ handlers[Len(handlers)].lpc = "answered"
    /\ handlers[Len(handlers)].response = "200"

====
